---- MODULE Spec2Model ----
(***************************************************************************)
(* Model of src/frontend/src/App.js: the React component App, whose state  *)
(* (the useState cells) holds the cart, the view and the checkout flag,    *)
(* and whose handlers mutate them one event at a time.                     *)
(***************************************************************************)
EXTENDS Integers, Sequences, FiniteSets, TLC

(***************************************************************************)
(* Bounds of the model.                                                    *)
(***************************************************************************)
\* Largest quantity a line is grown to by Add to Cart / "+" / setQuantity.
MaxQty == 2
\* Most session-creation requests outstanding at once when handleCheckout is
\* invoked directly (the UI never has more than one, see ClickCheckout).
MaxPending == 1
\* Most requests of either catalog endpoint outstanding at once.
MaxFetches == 2

(***************************************************************************)
(* Data: artwork records as the catalog service returns them.  Only the    *)
(* fields the handlers read (id, price) and the one the catalog filters on *)
(* (category) are kept; the display fields are carried along by the spread *)
(* operator exactly as these are.                                          *)
(***************************************************************************)
ArtA == [id |-> 1, price |-> 100, category |-> "abstract"]
ArtB == [id |-> 2, price |-> 50, category |-> "landscape"]
ArtC == [id |-> 3, price |-> 75, category |-> "digital"]
\* The artwork of identifier 1 as a later catalog response reports it.
ArtA2 == [id |-> 1, price |-> 120, category |-> "abstract"]

\* What the catalog service holds in the UI specifications.
Catalogue == <<ArtA, ArtB>>
\* Artwork references handed to addToCart when it is called as an operation.
ArtworkInputs == {ArtA, ArtB, ArtC, ArtA2}
ArtworkIds == {a.id : a \in ArtworkInputs}
\* Quantities handed to updateCartQuantity when it is called as an operation.
QtyInputs == {-1} \cup (0..MaxQty)

NullArtwork == [id |-> 0, price |-> 0, category |-> "none"]
Categories == {"all", "abstract", "landscape", "digital"}
Views == {"home", "gallery", "artwork-detail", "about", "contact", "success"}

\* window.location.search: no session_id parameter, an empty one, a value.
NoParam == "<absent>"
SessionIdParams == {NoParam, "", "cs_test_1"}

AppUrl == "app"
SessionUrl == "https://checkout.example/session"
NoAlert == "<none>"
EmptyCartAlert == "Your cart is empty!"
CheckoutFailedAlert == "Failed to start checkout. Please try again."

VARIABLES
  artworks,          \* useState([])      line 7
  featuredArtworks,  \* useState([])      line 8
  selectedArtwork,   \* useState(null)    line 9
  currentView,       \* useState('home')  line 10
  filterCategory,    \* useState('all')   line 11
  cart,              \* useState([])      line 12
  isCartOpen,        \* useState(false)   line 13
  isCheckingOut,     \* useState(false)   line 14
  urlSessionId,      \* the session_id parameter of window.location.search
  href,              \* the URL last assigned to window.location.href (AppUrl: none)
  page,              \* "live" until the navigation started by href unloads it
  alertMsg,          \* the last message shown by alert()
  pending,           \* bodies of the create-session requests awaiting a response
  artworksPending,   \* categories of the /api/artworks requests awaiting a response
  featuredPending    \* number of /api/featured-artworks requests awaiting a response

vars == <<artworks, featuredArtworks, selectedArtwork, currentView, filterCategory,
          cart, isCartOpen, isCheckingOut, urlSessionId, href, page, alertMsg,
          pending, artworksPending, featuredPending>>

viewVars == <<selectedArtwork, currentView, filterCategory, isCartOpen>>
catalogVars == <<artworks, featuredArtworks, artworksPending, featuredPending>>
checkoutVars == <<isCheckingOut, href, page, alertMsg, pending>>

(***************************************************************************)
(* Pure helpers.                                                           *)
(***************************************************************************)
\* The session_id marker is truthy: present and not the empty string.
Truthy(param) == param # NoParam /\ param # ""

(***************************************************************************)
(* Init: the state after the first render and the mount effect             *)
(* (lines 7-26): both catalog fetches are outstanding and the view is      *)
(* 'success' when the URL carries a truthy session_id.                     *)
(***************************************************************************)
Init ==
  /\ artworks = << >>
  /\ featuredArtworks = << >>
  /\ selectedArtwork = NullArtwork
  /\ urlSessionId \in SessionIdParams
  /\ currentView = IF Truthy(urlSessionId) THEN "success" ELSE "home"
  /\ filterCategory = "all"
  /\ cart = << >>
  /\ isCartOpen = FALSE
  /\ isCheckingOut = FALSE
  /\ href = AppUrl
  /\ page = "live"
  /\ alertMsg = NoAlert
  /\ pending = << >>
  /\ artworksPending = <<"all">>
  /\ featuredPending = 1

(***************************************************************************)
(* Cart operations (lines 51-83).                                          *)
(***************************************************************************)
\* { ...artwork, quantity: 1 }
NewLine(artwork) ==
  [id |-> artwork.id, price |-> artwork.price, category |-> artwork.category,
   quantity |-> 1]

\* addToCart without the lookup of an existing line: every call appends.
AddToCartAlwaysAppends(prevCart, artwork) ==
  Append(prevCart, NewLine(artwork))

\* addToCart that rebuilds the existing line from the artwork handed in
\* ({ ...artwork, quantity: item.quantity + 1 }) instead of from the line.
AddToCartRebuildsLine(prevCart, artwork) ==
  IF \E i \in DOMAIN prevCart : prevCart[i].id = artwork.id
  THEN [i \in DOMAIN prevCart |->
          IF prevCart[i].id = artwork.id
          THEN [NewLine(artwork) EXCEPT !.quantity = prevCart[i].quantity + 1]
          ELSE prevCart[i]]
  ELSE Append(prevCart, NewLine(artwork))

\* The updater handed to setCart by addToCart (lines 52-62).
AddToCartUpdater(prevCart, artwork) ==
  IF \E i \in DOMAIN prevCart : prevCart[i].id = artwork.id
  THEN [i \in DOMAIN prevCart |->
          IF prevCart[i].id = artwork.id
          THEN [prevCart[i] EXCEPT !.quantity = @ + 1]
          ELSE prevCart[i]]
  ELSE Append(prevCart, NewLine(artwork))

\* removeFromCart with the test of the filter inverted (=== for !==).
RemoveFromCartKeepsMatch(prevCart, artworkId) ==
  LET Keep(item) == item.id = artworkId IN SelectSeq(prevCart, Keep)

\* The updater handed to setCart by removeFromCart (line 66).
RemoveFromCartUpdater(prevCart, artworkId) ==
  LET Keep(item) == item.id # artworkId IN SelectSeq(prevCart, Keep)

\* updateCartQuantity without its quantity === 0 branch.
UpdateCartQuantityNoZeroBranch(prevCart, artworkId, quantity) ==
  [i \in DOMAIN prevCart |->
     IF prevCart[i].id = artworkId
     THEN [prevCart[i] EXCEPT !.quantity = quantity]
     ELSE prevCart[i]]

\* updateCartQuantity taking the line out and putting the updated one last.
UpdateCartQuantityMovesLine(prevCart, artworkId, quantity) ==
  IF quantity = 0
  THEN RemoveFromCartUpdater(prevCart, artworkId)
  ELSE RemoveFromCartUpdater(prevCart, artworkId)
         \o [i \in DOMAIN SelectSeq(prevCart, LAMBDA item : item.id = artworkId) |->
               [SelectSeq(prevCart, LAMBDA item : item.id = artworkId)[i]
                  EXCEPT !.quantity = quantity]]

\* What updateCartQuantity makes of the cart (lines 69-79).
UpdateCartQuantityResult(prevCart, artworkId, quantity) ==
  IF quantity = 0
  THEN RemoveFromCartUpdater(prevCart, artworkId)
  ELSE [i \in DOMAIN prevCart |->
          IF prevCart[i].id = artworkId
          THEN [prevCart[i] EXCEPT !.quantity = quantity]
          ELSE prevCart[i]]

\* getCartTotal summing the prices without the quantities.
RECURSIVE ReduceIgnoringQuantity(_, _)
ReduceIgnoringQuantity(s, total) ==
  IF s = << >> THEN total
  ELSE ReduceIgnoringQuantity(Tail(s), total + Head(s).price)

\* cart.reduce((total, item) => total + item.price * item.quantity, 0)
RECURSIVE Reduce(_, _)
Reduce(s, total) ==
  IF s = << >> THEN total
  ELSE Reduce(Tail(s), total + Head(s).price * Head(s).quantity)

CartTotal(c) == Reduce(c, 0)
getCartTotal == CartTotal(cart)

\* An addToCart that also selects the artwork it adds.
addToCartSelects(artwork) ==
  /\ cart' = AddToCartUpdater(cart, artwork)
  /\ selectedArtwork' = artwork
  /\ UNCHANGED <<currentView, filterCategory, isCartOpen, catalogVars,
                 checkoutVars, urlSessionId>>

addToCart(artwork) ==
  /\ cart' = AddToCartUpdater(cart, artwork)
  /\ UNCHANGED <<viewVars, catalogVars, checkoutVars, urlSessionId>>

removeFromCart(artworkId) ==
  /\ cart' = RemoveFromCartUpdater(cart, artworkId)
  /\ UNCHANGED <<viewVars, catalogVars, checkoutVars, urlSessionId>>

updateCartQuantity(artworkId, quantity) ==
  /\ cart' = UpdateCartQuantityResult(cart, artworkId, quantity)
  /\ UNCHANGED <<viewVars, catalogVars, checkoutVars, urlSessionId>>

\* A Continue Shopping that also resets the checkout flag.
ContinueShoppingResetsFlag ==
  /\ cart' = << >>
  /\ currentView' = "home"
  /\ isCheckingOut' = FALSE
  /\ UNCHANGED <<selectedArtwork, filterCategory, isCartOpen, catalogVars,
                 urlSessionId, href, page, alertMsg, pending>>

\* The onClick of the Continue Shopping button (lines 455-458).
ContinueShopping ==
  /\ cart' = << >>
  /\ currentView' = "home"
  /\ UNCHANGED <<selectedArtwork, filterCategory, isCartOpen, catalogVars,
                 checkoutVars, urlSessionId>>

\* The model's bound on quantities: a line is not grown past MaxQty.
CanGrow(artworkId) ==
  \A i \in DOMAIN cart : cart[i].id = artworkId => cart[i].quantity < MaxQty

(***************************************************************************)
(* Spec: the cart operations called in any order with any argument.        *)
(***************************************************************************)
OpAddItem == \E a \in ArtworkInputs : CanGrow(a.id) /\ addToCart(a)
OpRemoveItem == \E id \in ArtworkIds : removeFromCart(id)
OpSetQuantity == \E id \in ArtworkIds, q \in QtyInputs : updateCartQuantity(id, q)
OpContinueShopping == ContinueShopping

Next == OpAddItem \/ OpRemoveItem \/ OpSetQuantity \/ OpContinueShopping

Spec == Init /\ [][Next]_vars

(***************************************************************************)
(* Checkout (lines 85-125).  handleCheckout runs to its first await in one *)
(* step; the rest of it runs when the response arrives.                    *)
(***************************************************************************)
\* renderCurrentView (lines 523-538).
Displayed ==
  CASE currentView = "home" -> "HomePage"
    [] currentView = "gallery" -> "GalleryPage"
    [] currentView = "artwork-detail" -> "ArtworkDetailPage"
    [] currentView = "about" -> "AboutPage"
    [] currentView = "contact" -> "ContactPage"
    [] OTHER -> "HomePage"

\* The body of a non-success catalog response, a JSON object such as
\* { detail: "Not Found" }.  It is written as a one-element sequence holding a
\* marker record so that it can be compared with listings; it is not an array.
ErrorBody == <<[id |-> -1, price |-> 0, category |-> "detail: Not Found"]>>

\* Array.isArray: whether .map (lines 212, 284) is defined on the value.
IsListing(v) == v # ErrorBody

\* The render throws (TypeError: map is not a function) when the page displayed
\* maps over a value that is no array; with no error boundary React then
\* unmounts the whole tree and no handler runs any more.
RenderThrows ==
  \/ Displayed = "HomePage" /\ ~IsListing(featuredArtworks)
  \/ Displayed = "GalleryPage" /\ ~IsListing(artworks)

\* The component is mounted in a document that has not been unloaded.
Live == page = "live" /\ ~RenderThrows

\* A request body that asks for one of each artwork in the cart.
CheckoutDataOneEach(c) ==
  [items |-> [i \in DOMAIN c |-> [artwork_id |-> c[i].id, quantity |-> 1]],
   customer_email |-> "customer@example.com"]

\* checkoutData (lines 94-100), the body of the create-session request.
CheckoutData(c) ==
  [items |-> [i \in DOMAIN c |-> [artwork_id |-> c[i].id, quantity |-> c[i].quantity]],
   customer_email |-> "customer@example.com"]

\* handleCheckout without its empty-cart guard.
handleCheckoutUnguarded ==
  /\ isCheckingOut' = TRUE
  /\ pending' = Append(pending, CheckoutData(cart))
  /\ UNCHANGED <<cart, viewVars, catalogVars, urlSessionId, href, page, alertMsg>>

\* Lines 85-108: the empty-cart guard, the flag, the request.
handleCheckout ==
  IF Len(cart) = 0
  THEN /\ alertMsg' = EmptyCartAlert
       /\ UNCHANGED <<cart, viewVars, catalogVars, urlSessionId,
                      isCheckingOut, href, page, pending>>
  ELSE /\ isCheckingOut' = TRUE
       /\ pending' = Append(pending, CheckoutData(cart))
       /\ UNCHANGED <<cart, viewVars, catalogVars, urlSessionId,
                      href, page, alertMsg>>

WithoutRequest(i) == SubSeq(pending, 1, i - 1) \o SubSeq(pending, i + 1, Len(pending))

\* How a create-session request can fail: fetch rejects, the response is not
\* ok (line 110), or its body is not JSON (line 114).
FailureKinds == {"network-error", "non-2xx", "bad-json"}

\* The failure path without the finally block: the flag stays set.
CheckoutFailedKeepsFlag(i, kind) ==
  /\ i \in DOMAIN pending
  /\ kind \in FailureKinds
  /\ pending' = WithoutRequest(i)
  /\ alertMsg' = CheckoutFailedAlert
  /\ UNCHANGED <<cart, viewVars, catalogVars, urlSessionId, href, page, isCheckingOut>>

\* Lines 110-112 and 119-124: the catch and the finally blocks.
CheckoutFailed(i, kind) ==
  /\ i \in DOMAIN pending
  /\ kind \in FailureKinds
  /\ pending' = WithoutRequest(i)
  /\ alertMsg' = CheckoutFailedAlert
  /\ isCheckingOut' = FALSE
  /\ UNCHANGED <<cart, viewVars, catalogVars, urlSessionId, href, page>>

\* Lines 114-117 and 122-124: the navigation, then the finally block.
CheckoutSucceeded(i) ==
  /\ i \in DOMAIN pending
  /\ pending' = WithoutRequest(i)
  /\ href' = SessionUrl
  /\ isCheckingOut' = FALSE
  /\ UNCHANGED <<cart, viewVars, catalogVars, urlSessionId, page, alertMsg>>

\* The navigation started by the assignment to window.location.href replaces
\* the document at some later time; until then the page keeps handling events.
PageUnload ==
  /\ Live
  /\ href # AppUrl
  /\ page' = "unloaded"
  /\ UNCHANGED <<cart, viewVars, catalogVars, urlSessionId, isCheckingOut, href,
                 alertMsg, pending>>

ResponseFails == \E i \in DOMAIN pending, kind \in FailureKinds : Live /\ CheckoutFailed(i, kind)
ResponseSucceeds == \E i \in DOMAIN pending : Live /\ CheckoutSucceeded(i)

(***************************************************************************)
(* SpecOps: the checkout operation called directly, between cart           *)
(* operations, with at most MaxPending requests outstanding.               *)
(***************************************************************************)
OpsAddItem == \E a \in {ArtA, ArtB} : Live /\ CanGrow(a.id) /\ addToCart(a)
OpsRemoveItem == \E id \in {ArtA.id, ArtB.id} : Live /\ removeFromCart(id)
OpsCheckout == Live /\ (Len(cart) = 0 \/ Len(pending) < MaxPending) /\ handleCheckout

NextOps ==
  \/ OpsAddItem
  \/ OpsRemoveItem
  \/ OpsCheckout
  \/ ResponseFails
  \/ ResponseSucceeds
  \/ PageUnload

SpecOps == Init /\ [][NextOps]_vars

(***************************************************************************)
(* The catalog (lines 28-49).                                              *)
(***************************************************************************)
\* GET /api/artworks[?category=C]
CatalogListing(category) ==
  IF category = "all" THEN Catalogue
  ELSE LET InCategory(a) == a.category = category IN SelectSeq(Catalogue, InCategory)

\* GET /api/featured-artworks
FeaturedListing == <<ArtA>>

\* How a catalog request can end: a 2xx response with the listing; a rejected
\* fetch or a body that is not JSON (the catch block); a non-success response
\* with a JSON body, which lines 33-35 store like a listing (response.ok is
\* not looked at).
CatalogOutcomes == {"listing", "rejected", "error-body"}

CatalogData(outcome, listing, previous) ==
  CASE outcome = "listing" -> listing
    [] outcome = "rejected" -> previous
    [] outcome = "error-body" -> ErrorBody

\* Lines 33-38: the i-th outstanding /api/artworks request ends.
ArtworksDelivered(i, outcome) ==
  /\ Live
  /\ i \in DOMAIN artworksPending
  /\ artworks' = CatalogData(outcome, CatalogListing(artworksPending[i]), artworks)
  /\ artworksPending' = SubSeq(artworksPending, 1, i - 1)
                          \o SubSeq(artworksPending, i + 1, Len(artworksPending))
  /\ UNCHANGED <<featuredArtworks, featuredPending, cart, viewVars, checkoutVars,
                 urlSessionId>>

\* Lines 43-48: an outstanding /api/featured-artworks request ends.
FeaturedDelivered(outcome) ==
  /\ Live
  /\ featuredPending > 0
  /\ featuredPending' = featuredPending - 1
  /\ featuredArtworks' = CatalogData(outcome, FeaturedListing, featuredArtworks)
  /\ UNCHANGED <<artworks, artworksPending, cart, viewVars, checkoutVars,
                 urlSessionId>>

\* The responses of a catalog service that answers with a listing or not at all.
ArtworksResponse ==
  \E i \in DOMAIN artworksPending, ok \in BOOLEAN :
    ArtworksDelivered(i, IF ok THEN "listing" ELSE "rejected")

FeaturedResponse ==
  \E ok \in BOOLEAN : FeaturedDelivered(IF ok THEN "listing" ELSE "rejected")

\* The responses of a catalog service that may also answer with an error.
ArtworksAnyResponse ==
  \E i \in DOMAIN artworksPending, outcome \in CatalogOutcomes :
    ArtworksDelivered(i, outcome)

FeaturedAnyResponse == \E outcome \in CatalogOutcomes : FeaturedDelivered(outcome)

(***************************************************************************)
(* The user interface: what is rendered, and the clicks it offers.  React  *)
(* renders again before the next event is handled, so every handler reads  *)
(* the current state.                                                      *)
(***************************************************************************)
Elements(s) == {s[i] : i \in DOMAIN s}

\* The artworks with an Add to Cart button on the page displayed
\* (lines 223-228, 313-318 and 364-369).
AddToCartButtons ==
  CASE Displayed = "HomePage" -> Elements(featuredArtworks)
    [] Displayed = "GalleryPage" -> Elements(artworks)
    [] Displayed = "ArtworkDetailPage" ->
         IF selectedArtwork # NullArtwork THEN {selectedArtwork} ELSE {}
    [] OTHER -> {}

\* The artworks whose image opens the detail page (lines 213-220, 288-304).
DetailLinks ==
  CASE Displayed = "HomePage" -> Elements(featuredArtworks)
    [] Displayed = "GalleryPage" -> Elements(artworks)
    [] OTHER -> {}

\* Header (lines 130-157), Explore Gallery (line 180), Back to Gallery (line 333).
ClickNav ==
  \E view \in {"home", "gallery", "about", "contact"} :
    /\ Live
    /\ currentView' = view
    /\ UNCHANGED <<selectedArtwork, filterCategory, isCartOpen, cart, catalogVars,
                   checkoutVars, urlSessionId>>

ClickArtwork ==
  \E a \in DetailLinks :
    /\ Live
    /\ selectedArtwork' = a
    /\ currentView' = "artwork-detail"
    /\ UNCHANGED <<filterCategory, isCartOpen, cart, catalogVars, checkoutVars,
                   urlSessionId>>

\* The Cart button of the header (line 160) and the close button (line 473).
ClickCartButton ==
  /\ Live
  /\ isCartOpen' = ~isCartOpen
  /\ UNCHANGED <<selectedArtwork, currentView, filterCategory, cart, catalogVars,
                 checkoutVars, urlSessionId>>

ClickAddToCart == \E a \in AddToCartButtons : Live /\ CanGrow(a.id) /\ addToCart(a)

\* The controls of a cart line (lines 489-500), in the open cart sidebar.
ClickMinus ==
  \E i \in DOMAIN cart :
    Live /\ isCartOpen /\ updateCartQuantity(cart[i].id, cart[i].quantity - 1)

ClickPlus ==
  \E i \in DOMAIN cart :
    /\ Live /\ isCartOpen /\ cart[i].quantity < MaxQty
    /\ updateCartQuantity(cart[i].id, cart[i].quantity + 1)

ClickRemove == \E i \in DOMAIN cart : Live /\ isCartOpen /\ removeFromCart(cart[i].id)

\* The checkout button (lines 506-517): rendered for a cart with lines,
\* disabled while isCheckingOut.
CheckoutButtonEnabled == isCartOpen /\ Len(cart) > 0 /\ ~isCheckingOut

ClickCheckout == Live /\ CheckoutButtonEnabled /\ handleCheckout

\* The Continue Shopping button belongs to SuccessPage (lines 445-465).
ClickContinueShopping == Live /\ currentView = "success" /\ ContinueShopping

NextUI ==
  \/ ClickNav
  \/ ClickArtwork
  \/ ClickCartButton
  \/ ClickAddToCart
  \/ ClickMinus
  \/ ClickPlus
  \/ ClickRemove
  \/ ClickCheckout
  \/ ResponseFails
  \/ ResponseSucceeds
  \/ PageUnload
  \/ ArtworksResponse
  \/ FeaturedResponse

\* SpecUI: the events the rendered page offers.  renderCurrentView has no case
\* for 'success', so SuccessPage and its button are never on the page.
SpecUI == Init /\ [][NextUI]_vars

\* SpecControls: SpecUI and the Continue Shopping control, taken to be offered
\* whenever the view is 'success'.
NextControls == NextUI \/ ClickContinueShopping

SpecControls == Init /\ [][NextControls]_vars

(***************************************************************************)
(* The filter buttons of GalleryPage (lines 256-279) and the effect they   *)
(* trigger.  The effect (lines 16-26) depends on filterCategory: a click   *)
(* that changes the category renders again and then runs the whole effect, *)
(* both fetches and the session_id check, before the next event.  A click  *)
(* on the category already selected changes nothing.                       *)
(***************************************************************************)
\* A filter change whose effect empties the cart when it finds the marker.
setFilterCategoryClearsCart(category) ==
  /\ category # filterCategory
  /\ filterCategory' = category
  /\ artworksPending' = Append(artworksPending, category)
  /\ featuredPending' = featuredPending + 1
  /\ currentView' = IF Truthy(urlSessionId) THEN "success" ELSE currentView
  /\ cart' = IF Truthy(urlSessionId) THEN << >> ELSE cart
  /\ UNCHANGED <<artworks, featuredArtworks, selectedArtwork, isCartOpen,
                 checkoutVars, urlSessionId>>

setFilterCategory(category) ==
  /\ category # filterCategory
  /\ filterCategory' = category
  /\ artworksPending' = Append(artworksPending, category)
  /\ featuredPending' = featuredPending + 1
  /\ currentView' = IF Truthy(urlSessionId) THEN "success" ELSE currentView
  /\ UNCHANGED <<artworks, featuredArtworks, selectedArtwork, isCartOpen, cart,
                 checkoutVars, urlSessionId>>

ClickFilter ==
  \E category \in Categories :
    /\ Live
    /\ Displayed = "GalleryPage"
    /\ Len(artworksPending) < MaxFetches
    /\ featuredPending < MaxFetches
    /\ setFilterCategory(category)

\* SpecCatalog: browsing.  Navigation, the filter buttons and the catalog
\* responses, whatever the service answers and in whatever order.
NextCatalog ==
  \/ ClickNav
  \/ ClickFilter
  \/ ArtworksAnyResponse
  \/ FeaturedAnyResponse

SpecCatalog == Init /\ [][NextCatalog]_vars

(***************************************************************************)
(* SpecSession: one page session with every kind of event: cart edits,     *)
(* navigation, detail selection, filter changes, catalog responses,        *)
(* checkout and its completion, and Continue Shopping (offered in the      *)
(* 'success' view, as in SpecControls).  To keep it small each artwork is  *)
(* added once, the catalog service answers every request with its listing, *)
(* and the filter is changed when no catalog request is outstanding.       *)
(***************************************************************************)
ArtworksListed == \E i \in DOMAIN artworksPending : ArtworksDelivered(i, "listing")
FeaturedListed == FeaturedDelivered("listing")

SessionAddToCart ==
  \E a \in AddToCartButtons :
    /\ Live
    /\ \A i \in DOMAIN cart : cart[i].id # a.id
    /\ addToCart(a)

SessionFilter == artworksPending = << >> /\ featuredPending = 0 /\ ClickFilter

NextSession ==
  \/ ClickNav
  \/ ClickArtwork
  \/ ClickCartButton
  \/ SessionAddToCart
  \/ ClickMinus
  \/ ClickRemove
  \/ ClickCheckout
  \/ ResponseFails
  \/ ResponseSucceeds
  \/ PageUnload
  \/ ArtworksListed
  \/ FeaturedListed
  \/ SessionFilter
  \/ ClickContinueShopping

SpecSession == Init /\ [][NextSession]_vars

(***************************************************************************)
(* Properties of the cart operations, checked under Spec.                  *)
(***************************************************************************)
Lines(c) == DOMAIN c
HasLine(c, id) == \E i \in Lines(c) : c[i].id = id

\* C1: after any sequence of addItem, removeItem, setQuantity and Continue
\* Shopping operations from the empty cart, no two cart lines have the same
\* artwork identifier.
C1_NoDuplicateIds ==
  \A i, j \in Lines(cart) : cart[i].id = cart[j].id => i = j

\* Adding to an existing line merged (a quantity above 1) beside another line.
C1_Witness ==
  /\ Len(cart) >= 2
  /\ \E i \in Lines(cart) : cart[i].quantity = 2

\* The sum of price x quantity over a set of lines of c, taken in no
\* particular order.
RECURSIVE SumOver(_, _)
SumOver(c, S) ==
  IF S = {} THEN 0
  ELSE LET i == CHOOSE x \in S : TRUE
       IN c[i].price * c[i].quantity + SumOver(c, S \ {i})

Reordered(c, p) == [i \in Lines(c) |-> c[p[i]]]

AddItemPost(a) ==
  IF HasLine(cart, a.id)
  THEN /\ Len(cart') = Len(cart)
       /\ \A i \in Lines(cart) :
            IF cart[i].id = a.id
            THEN /\ cart'[i].quantity = cart[i].quantity + 1
                 /\ cart'[i].id = cart[i].id
                 /\ cart'[i].price = cart[i].price
                 /\ cart'[i].category = cart[i].category
            ELSE cart'[i] = cart[i]
  ELSE /\ Len(cart') = Len(cart) + 1
       /\ SubSeq(cart', 1, Len(cart)) = cart
       /\ cart'[Len(cart')].id = a.id
       /\ cart'[Len(cart')].price = a.price
       /\ cart'[Len(cart')].quantity = 1

\* C4: addItem(artwork) increases the quantity of the line with the artwork's
\* identifier by exactly 1 and leaves the number, order and content of the other
\* lines unchanged; with no such line it appends a line of quantity 1 and leaves
\* the existing lines unchanged.
C4_AddItemMergesOrAppends ==
  [][\A a \in ArtworkInputs : addToCart(a) => AddItemPost(a)]_vars

\* The same artwork added twice after another one: one line of quantity 2, in
\* second place, with the data it entered the cart with.
C4_Witness ==
  /\ Len(cart) = 2
  /\ cart[1] = NewLine(ArtB)
  /\ cart[2] = [NewLine(ArtA2) EXCEPT !.quantity = 2]

\* The cart c without its line of identifier id, the other lines in place.
DeleteLine(c, id) ==
  IF HasLine(c, id)
  THEN LET k == CHOOSE i \in Lines(c) : c[i].id = id
       IN SubSeq(c, 1, k - 1) \o SubSeq(c, k + 1, Len(c))
  ELSE c

\* C5: setQuantity(id, 0) produces the same cart as removeItem(id): the line of
\* that identifier is deleted if present, the other lines keep their order and
\* content, and the cart is unchanged if no line has the identifier.
C5_SetQuantityZeroIsRemove ==
  [][\A id \in ArtworkIds :
       updateCartQuantity(id, 0) =>
         /\ cart' = DeleteLine(cart, id)
         /\ cart' = RemoveFromCartUpdater(cart, id)]_vars

\* A cart that lost its middle line: three lines were added, and the second
\* identifier is gone while the first and third stand in order.
C5_Witness ==
  /\ Len(cart) = 2
  /\ cart[1].id = ArtA.id
  /\ cart[2].id = ArtC.id
  /\ ~HasLine(cart, ArtB.id)

\* C6: setQuantity(id, q) with q < 0 is refused: the cart after the call is
\* identical to the cart before it.
C6_NegativeQuantityRefused ==
  [][\A id \in ArtworkIds, q \in QtyInputs :
       (q < 0 /\ updateCartQuantity(id, q)) => cart' = cart]_vars

(***************************************************************************)
(* Properties of the cart controls, checked under SpecControls.            *)
(***************************************************************************)
\* C2: in every state reached through the cart controls (Add to Cart, +, -,
\* remove, Continue Shopping), every cart line has quantity >= 1.
C2_QuantityAtLeastOne ==
  \A i \in Lines(cart) : cart[i].quantity >= 1

\* The open sidebar shows two lines, one of quantity 1 (whose "-" button
\* removes it) and one grown to the largest quantity, in a session that began in
\* the success view and has returned to the home view.
C2_Witness ==
  /\ isCartOpen
  /\ Len(cart) = 2
  /\ cart[1].quantity = 1
  /\ cart[2].quantity = MaxQty
  /\ Truthy(urlSessionId)
  /\ currentView = "home"

(***************************************************************************)
(* Properties of checkout.                                                 *)
(***************************************************************************)
\* C7 (SpecOps): checkout() invoked when the cart has zero lines issues no
\* session-creation request, does not enter the in-flight state, and leaves the
\* cart empty.
C7_EmptyCartCheckoutRefused ==
  [][(Len(cart) = 0 /\ handleCheckout) =>
       /\ pending' = pending
       /\ isCheckingOut' = isCheckingOut
       /\ cart' = << >>]_vars

\* checkout() was refused on an empty cart: its alert is up, nothing is
\* outstanding, the flag is clear.
C7_Witness ==
  /\ alertMsg = EmptyCartAlert
  /\ Len(cart) = 0
  /\ pending = << >>
  /\ ~isCheckingOut
  /\ href = AppUrl

\* C8 (SpecUI): when the session-creation request fails, the handler leaves the
\* cart and its total as they were, performs no navigation, and clears the
\* in-flight flag, so that the checkout button of a cart with lines is enabled
\* again.
C8_FailureKeepsCart ==
  [][\A i \in DOMAIN pending, kind \in FailureKinds :
       (Live /\ CheckoutFailed(i, kind)) =>
         /\ cart' = cart
         /\ getCartTotal' = getCartTotal
         /\ href' = href
         /\ page' = page
         /\ ~isCheckingOut'
         /\ (isCartOpen /\ Len(cart) > 0 => CheckoutButtonEnabled')]_vars

\* A failed attempt: the failure alert is up over a cart that still has its
\* lines, nothing is outstanding, no navigation happened, the button is enabled.
C8_Witness ==
  /\ alertMsg = CheckoutFailedAlert
  /\ Len(cart) = 2
  /\ pending = << >>
  /\ href = AppUrl
  /\ CheckoutButtonEnabled

\* An attempt is open: its request is outstanding, or it succeeded.
AttemptOpen == pending # << >> \/ href # AppUrl

\* C9 (SpecUI): from the moment checkout() enters the in-flight state until
\* that attempt has failed, no checkout submission issues another request.
C9_OneRequestPerAttempt ==
  [][AttemptOpen => Len(pending') <= Len(pending)]_vars

\* C10 (SpecUI): Redirecting is terminal: once a session-creation request has
\* succeeded and the navigation to the returned URL has been performed, the
\* in-flight flag is not cleared and checkout submission is not re-enabled.
C10_RedirectingIsTerminal ==
  href # AppUrl => (isCheckingOut /\ ~CheckoutButtonEnabled)

(***************************************************************************)
(* Properties of the return from the payment processor.                    *)
(***************************************************************************)
\* The state the mount effect leaves, before any event.
AtStartUp ==
  /\ artworks = << >> /\ featuredArtworks = << >>
  /\ artworksPending = <<"all">> /\ featuredPending = 1
  /\ cart = << >> /\ ~isCartOpen /\ selectedArtwork = NullArtwork
  /\ filterCategory = "all"
  /\ currentView \in {"home", "success"}

\* C11 (SpecUI): when the session_id marker is present in the entry URL, the
\* page displayed after start-up is the success page, which offers Continue
\* Shopping.
C11_SuccessPageDisplayed ==
  (urlSessionId # NoParam /\ AtStartUp) => Displayed = "SuccessPage"

\* A step that edits the cart through one of the cart operations.
CartOperationStep ==
  \/ \E a \in Elements(Catalogue) : addToCart(a)
  \/ \E id \in ArtworkIds : removeFromCart(id)
  \/ \E id \in ArtworkIds, q \in 0..MaxQty : updateCartQuantity(id, q)

\* C12 (SpecSession): detecting the return marker, which every run of the
\* effect (every filter change) does, does not change the cart;
\* the cart is modified only by the cart operations and by Continue Shopping,
\* after which the cart is empty and the view is the home view.
C12_CartKeptUntilContinueShopping ==
  [][/\ filterCategory' # filterCategory => cart' = cart
     /\ cart' # cart => (CartOperationStep \/ ContinueShopping)
     /\ ContinueShopping => (cart' = << >> /\ currentView' = "home")]_vars

\* The marker was detected again (a filter other than the initial one is
\* selected and the view is 'success') and the cart still holds its two lines.
C12_Witness ==
  /\ Truthy(urlSessionId)
  /\ currentView = "success"
  /\ filterCategory # "all"
  /\ Len(cart) = 2

\* C13 (SpecCatalog): the return-marker check takes effect once: after the
\* view has left 'success', no later event, a filter change in particular,
\* sets it back to 'success'.
C13_MarkerCheckedOnce ==
  [][currentView # "success" => currentView' # "success"]_vars

(***************************************************************************)
(* Properties of setQuantity with a positive quantity.                     *)
(***************************************************************************)
\* The cart after setQuantity(id, q), q >= 1: the line with the id, if any,
\* has quantity q where it stood; everything else is as before.
SetQuantityPost(before, after, id, q) ==
  /\ Len(after) = Len(before)
  /\ \A i \in DOMAIN before :
       IF before[i].id = id
       THEN after[i] = [before[i] EXCEPT !.quantity = q]
       ELSE after[i] = before[i]
  /\ ~HasLine(before, id) => after = before

\* C14 (Spec): setQuantity(id, q) with q >= 1 replaces the quantity of the
\* line with that id in place, leaving the other lines and the number of
\* lines unchanged; when no line has the id the cart is unchanged.
C14_SetQuantityInPlace ==
  [][\A id \in ArtworkIds, q \in 1..MaxQty :
       updateCartQuantity(id, q) => SetQuantityPost(cart, cart', id, q)]_vars

\* A cart of two lines or more whose first line was set to the largest quantity.
C14_Witness ==
  /\ Len(cart) >= 2
  /\ cart[1].quantity = MaxQty
  /\ cart[2].quantity = 1

(***************************************************************************)
(* Properties of the request and of the flag while it is outstanding.      *)
(***************************************************************************)
\* The items of a request are the cart's lines, in order.
ItemsMatch(items, c) ==
  /\ Len(items) = Len(c)
  /\ \A i \in DOMAIN c :
       items[i].artwork_id = c[i].id /\ items[i].quantity = c[i].quantity

\* C15 (SpecUI): the request carries one (artwork_id, quantity) entry per
\* cart line, equal to the cart at the time checkout was invoked and in cart
\* order; cart edits while the request is in flight change the cart and not
\* the request.
C15_RequestIsCartAtCheckout ==
  [][/\ Len(pending') > Len(pending) =>
          /\ pending' = Append(pending, pending'[Len(pending')])
          /\ ItemsMatch(pending'[Len(pending')].items, cart)
     /\ cart' # cart => pending' = pending]_vars

\* A request for two of one artwork is in flight and the cart has been edited.
C15_Witness ==
  /\ pending # << >>
  /\ pending[1].items[1].quantity = 2
  /\ ~ItemsMatch(pending[1].items, cart)

\* C16 (SpecSession): while the request is outstanding the in-flight flag
\* stays set; a step that does not complete the request (a cart edit,
\* navigation, a filter change, Continue Shopping) does not clear it, and the
\* step that completes the request clears it.
C16_FlagWhileOutstanding ==
  [][(isCheckingOut /\ pending # << >>) =>
        IF pending' = << >> THEN ~isCheckingOut' ELSE isCheckingOut']_vars

\* The request is outstanding, the flag set, and since checkout the filter was
\* changed (the marker-less view is not 'success') and the cart emptied.
C16_Witness ==
  /\ isCheckingOut
  /\ pending # << >>
  /\ cart = << >>
  /\ filterCategory # "all"
  /\ ~CheckoutButtonEnabled

(***************************************************************************)
(* Properties of the catalog listings.                                     *)
(***************************************************************************)
\* C17 (SpecCatalog): the response for an earlier-selected category never
\* overwrites the listing of the response for the category selected now: once
\* that response is in, a later listing delivered under the same filter
\* leaves artworks as it is.
C17_NoStaleListing ==
  [][(/\ filterCategory' = filterCategory
      /\ \A i \in DOMAIN artworksPending : artworksPending[i] # filterCategory
      /\ artworks = CatalogListing(filterCategory)
      /\ IsListing(artworks'))
       => artworks' = artworks]_vars

\* A step in which a catalog request ends without a listing.
CatalogFetchFails ==
  \E outcome \in CatalogOutcomes \ {"listing"} :
    \/ \E i \in DOMAIN artworksPending : ArtworksDelivered(i, outcome)
    \/ FeaturedDelivered(outcome)

\* C18 (SpecCatalog): a catalog fetch that fails leaves each listing as it
\* was or empty, never a value that is not a listing, and leaves the cart,
\* the view and the checkout state unchanged.
C18_FailedFetchKeepsListing ==
  [][CatalogFetchFails =>
       /\ artworks' \in {artworks, << >>} /\ IsListing(artworks')
       /\ featuredArtworks' \in {featuredArtworks, << >>} /\ IsListing(featuredArtworks')
       /\ UNCHANGED <<cart, currentView, checkoutVars>>]_vars

(***************************************************************************)
(* Cart and view are independent.                                          *)
(***************************************************************************)
\* A step of navigation, detail selection, filter change or catalog response.
ViewOrCatalogStep ==
  \/ ClickNav
  \/ ClickArtwork
  \/ ClickFilter
  \/ ArtworksAnyResponse
  \/ FeaturedAnyResponse

\* C19 (SpecSession): the cart operations leave the view, the selected
\* artwork and the in-flight flag unchanged; navigation, detail selection,
\* filter changes and catalog responses leave the cart unchanged; Continue
\* Shopping is the only step that changes both the cart and the view.  Every
\* cart operation the page offers changes the cart, so a step that changes
\* the cart is a cart operation or Continue Shopping.
C19_CartAndViewIndependent ==
  [][cart' # cart =>
       /\ ~ViewOrCatalogStep
       /\ ContinueShopping \/ UNCHANGED <<currentView, selectedArtwork, isCheckingOut>>]_vars

\* During a checkout the cart holds the first artwork while the detail view
\* shows the second, under a filter other than the initial one.
C19_Witness ==
  /\ cart = <<NewLine(ArtA)>>
  /\ selectedArtwork = ArtB
  /\ currentView = "artwork-detail"
  /\ filterCategory # "all"
  /\ isCheckingOut

====
